---- MODULE Spec2Model ----
(***************************************************************************)
(* Model of anomalib/models/__init__.py: the snake-case to Pascal-case     *)
(* conversion of a model name and get_model, which resolves a model name   *)
(* to a class by naming convention, instantiates it and optionally loads   *)
(* saved weights.                                                          *)
(*                                                                         *)
(* A Python str is a sequence of one-character strings, so that split,     *)
(* capitalize and join are computed character by character.                *)
(***************************************************************************)
EXTENDS Integers, Sequences, FiniteSets, TLC

VARIABLES
    config,     \* the configuration document handed to get_model
    modules,    \* importable packages anomalib.models.<name> and what they export
    fs,         \* the filesystem: path -> content of the file at that path
    ctorOk,     \* whether the model class's constructor returns (or raises)
    pc,         \* position of the running call inside get_model
    frame,      \* local variables of the running call (module, model, ...)
    trace,      \* the steps the running call has executed so far
    heap,       \* every model object created so far, by identity
    results,    \* the outcome of every finished call, in call order
    caseIn,     \* argument of _snake_to_pascal_case
    caseOut,    \* its result
    caseOut2,   \* the result of converting the result again
    caseStage   \* 0: nothing applied, 1: converted once, 2: converted twice

vars == <<config, modules, fs, ctorOk, pc, frame, trace, heap, results,
          caseIn, caseOut, caseOut2, caseStage>>

modelVars == <<config, modules, fs, ctorOk, pc, frame, trace, heap, results>>
caseVars == <<caseIn, caseOut, caseOut2, caseStage>>

----------------------------------------------------------------------------
(* Bounds of the model.                                                    *)

\* longest generated argument of _snake_to_pascal_case
MaxLen == 3
\* number of get_model calls made with the same configuration
MaxCalls == 2

----------------------------------------------------------------------------
(* Characters and str methods.                                             *)

LowerChars == <<"a","b","c","d","e","f","g","h","i","j","k","l","m",
                "n","o","p","q","r","s","t","u","v","w","x","y","z">>
UpperChars == <<"A","B","C","D","E","F","G","H","I","J","K","L","M",
                "N","O","P","Q","R","S","T","U","V","W","X","Y","Z">>

IndexIn(c, chars) == IF \E i \in 1..Len(chars) : chars[i] = c
                     THEN CHOOSE i \in 1..Len(chars) : chars[i] = c
                     ELSE 0

\* str.upper / str.lower on one character: letters change case, the rest stay
ToUpper(c) == IF IndexIn(c, LowerChars) # 0 THEN UpperChars[IndexIn(c, LowerChars)] ELSE c
ToLower(c) == IF IndexIn(c, UpperChars) # 0 THEN LowerChars[IndexIn(c, UpperChars)] ELSE c

\* a buggy capitalize that leaves the tail of the word as it is
CapitalizeKeepTail(s) == IF s = <<>> THEN <<>> ELSE <<ToUpper(s[1])>> \o Tail(s)

\* str.capitalize(): first character upper-cased, the others lower-cased
Capitalize(s) == IF s = <<>> THEN <<>>
                 ELSE <<ToUpper(s[1])>> \o [i \in 1..(Len(s) - 1) |-> ToLower(s[i + 1])]

RECURSIVE SplitFrom(_, _, _)
\* the scan of str.split: cur is the segment being read at position i
SplitFrom(s, i, cur) ==
    IF i > Len(s) THEN <<cur>>
    ELSE IF s[i] = "_" THEN <<cur>> \o SplitFrom(s, i + 1, <<>>)
    ELSE SplitFrom(s, i + 1, Append(cur, s[i]))

\* str.split("_"): the segments between underscores, empty ones included
Split(s) == SplitFrom(s, 1, <<>>)

RECURSIVE JoinAll(_)
\* "".join(parts)
JoinAll(parts) == IF parts = <<>> THEN <<>> ELSE Head(parts) \o JoinAll(Tail(parts))

\* a buggy conversion that joins the capitalized segments with the separator kept
SnakeKeepSeparator(model_name) ==
    LET parts == Split(model_name)
        caps  == [i \in 1..Len(parts) |->
                    IF i = 1 THEN Capitalize(parts[i]) ELSE <<"_">> \o Capitalize(parts[i])]
    IN  JoinAll(caps)

\* _snake_to_pascal_case(model_name)
_snake_to_pascal_case(model_name) ==
    LET parts == Split(model_name)
    IN  JoinAll([i \in 1..Len(parts) |-> Capitalize(parts[i])])

----------------------------------------------------------------------------
(* The names get_model knows, and the packages they stand for.             *)

\* model_list of get_model
model_list == <<
    <<"c","f","l","o","w">>,
    <<"d","f","k","d","e">>,
    <<"d","f","m">>,
    <<"d","r","a","e","m">>,
    <<"f","a","s","t","f","l","o","w">>,
    <<"g","a","n","o","m","a","l","y">>,
    <<"p","a","d","i","m">>,
    <<"p","a","t","c","h","c","o","r","e">>,
    <<"r","e","v","e","r","s","e","_","d","i","s","t","i","l","l","a","t","i","o","n">>,
    <<"s","t","f","p","m">>
>>

\* __all__: the class each model package exports under its plain name
all_names == <<
    <<"C","f","l","o","w">>,
    <<"D","f","k","d","e">>,
    <<"D","f","m">>,
    <<"D","r","a","e","m">>,
    <<"F","a","s","t","f","l","o","w">>,
    <<"G","a","n","o","m","a","l","y">>,
    <<"P","a","d","i","m">>,
    <<"P","a","t","c","h","c","o","r","e">>,
    <<"R","e","v","e","r","s","e","D","i","s","t","i","l","l","a","t","i","o","n">>,
    <<"S","t","f","p","m">>
>>

Lightning == <<"L","i","g","h","t","n","i","n","g">>

Registry == {model_list[i] : i \in 1..Len(model_list)}

reverse_distillation == model_list[9]
padim == model_list[7]
Reversedistillation ==
    <<"R","e","v","e","r","s","e","d","i","s","t","i","l","l","a","t","i","o","n">>

\* names a configuration may carry that get_model does not know
not_a_model == <<"n","o","t","_","a","_","m","o","d","e","l">>
OtherNames == {not_a_model, all_names[7]}
ModelNames == Registry \cup OtherNames

\* a buggy membership test that compares case-insensitively
InModelListAnyCase(name) ==
    \E i \in 1..Len(model_list) :
        [k \in 1..Len(name) |-> ToLower(name[k])] = model_list[i]

\* config.model.name in model_list
InModelList(name) == \E i \in 1..Len(model_list) : name = model_list[i]

\* the dotted path of the package that import_module is asked for
ModulePath(name) == <<"anomalib", "models", name>>

\* the attribute get_model reads from the module
ClassName(name) == _snake_to_pascal_case(name) \o Lightning

\* The packages as the naming convention lays them out:
\* anomalib.models.<model_name> exports <ModelName> and <ModelName>Lightning.
ConventionalModules ==
    [p \in {ModulePath(model_list[i]) : i \in 1..Len(model_list)} |->
        LET i == CHOOSE j \in 1..Len(model_list) : ModulePath(model_list[j]) = p
        IN  {all_names[i], all_names[i] \o Lightning}]

\* the layout with one package absent
WithoutModule(name) ==
    [p \in DOMAIN ConventionalModules \ {ModulePath(name)} |-> ConventionalModules[p]]

\* the layout with one package exporting only the plain class
WithoutLightning(name) ==
    [p \in DOMAIN ConventionalModules |->
        IF p = ModulePath(name)
        THEN {c \in ConventionalModules[p] : \E i \in 1..Len(all_names) : c = all_names[i]}
        ELSE ConventionalModules[p]]

\* The packages where the imports at the top of the file find them:
\* anomalib.anomalib.models.<model_name>, and nothing at anomalib.models.
ImportedModules ==
    [p \in {<<"anomalib", "anomalib", "models", model_list[i]>> : i \in 1..Len(model_list)} |->
        LET i == CHOOSE j \in 1..Len(model_list) : p[4] = model_list[j]
        IN  {all_names[i], all_names[i] \o Lightning}]

BrokenNames == {padim, reverse_distillation}
Layouts == {ConventionalModules, ImportedModules}
           \cup {WithoutModule(n) : n \in BrokenNames}
           \cup {WithoutLightning(n) : n \in BrokenNames}

----------------------------------------------------------------------------
(* Paths, files and saved weights.                                         *)

\* A path string: whether it starts with "/" and its components.
PathOf(isAbs, segs) == [abs |-> isAbs, segs |-> segs]
EmptyPath == PathOf(FALSE, <<>>)
ProjectPath == PathOf(TRUE, <<"proj">>)
RelWeights == PathOf(FALSE, <<"w.ckpt">>)
AbsWeights == PathOf(TRUE, <<"w.ckpt">>)

\* os.path.join(a, b): an absolute b discards a
PathJoin(a, b) == IF b.abs THEN b ELSE PathOf(a.abs, a.segs \o b.segs)

\* a tensor: its shape and its content
Tensor(shape, val) == [shape |-> shape, val |-> val]

\* parameter names of a model object, and the state a constructor leaves
ModelKeys == {"w", "b"}
InitialParams == [k \in ModelKeys |-> Tensor("s", "init")]

\* what a file holds: nothing (no file), bytes torch cannot unpickle, a
\* pickled mapping without "state_dict", or a checkpoint with one
NoStateDict == [k \in {} |-> Tensor("s", "init")]
FileOf(kind, sd) == [kind |-> kind, state_dict |-> sd]
Missing == FileOf("missing", NoStateDict)
Corrupt == FileOf("corrupt", NoStateDict)
NoKey == FileOf("no_state_dict", NoStateDict)
sdFull == [k \in {"w", "b"} |-> Tensor("s", IF k = "w" THEN "w1" ELSE "b1")]
sdExtra == [k \in {"w", "x"} |-> Tensor("s", IF k = "w" THEN "w2" ELSE "x2")]
sdShape == [k \in {"w", "b"} |-> IF k = "w" THEN Tensor("t", "w3") ELSE Tensor("s", "b3")]
sdAbs == [k \in {"b"} |-> Tensor("s", "b4")]

RelContents == {Missing, Corrupt, NoKey,
                FileOf("checkpoint", sdFull), FileOf("checkpoint", sdExtra),
                FileOf("checkpoint", sdShape)}
AbsContents == {Missing, FileOf("checkpoint", sdAbs)}

\* the two places a weights path of the configuration can point at
Filesystems ==
    {[p \in {PathJoin(ProjectPath, RelWeights), AbsWeights} |->
        IF p = AbsWeights THEN a ELSE r] : r \in RelContents, a \in AbsContents}

\* the file at a path
FileAt(files, p) == IF p \in DOMAIN files THEN files[p] ELSE Missing

\* Values of the init_weights entry: no such key, a boolean, or a string.
IwOf(kind, b, path) == [kind |-> kind, b |-> b, path |-> path]
IwAbsent == IwOf("absent", FALSE, EmptyPath)
InitWeights == {IwAbsent, IwOf("bool", FALSE, EmptyPath), IwOf("bool", TRUE, EmptyPath),
                IwOf("str", FALSE, EmptyPath), IwOf("str", FALSE, RelWeights),
                IwOf("str", FALSE, AbsWeights)}

\* "init_weights" in config.keys()
HasInitWeights(cfg) == cfg.init_weights.kind # "absent"

\* truth value of config.init_weights: True, or a non-empty string
Truthy(iw) == \/ iw.kind = "bool" /\ iw.b
              \/ iw.kind = "str" /\ iw.path # EmptyPath

Configs == [name : ModelNames, init_weights : InitWeights, project_path : {ProjectPath}]

----------------------------------------------------------------------------
(* Exceptions and model objects.                                           *)

\* An exception: its Python type and its argument.
Exc(type, arg) == [type |-> type, arg |-> arg]
NoExc == Exc("", <<>>)

\* ValueError(f"Unknown model {config.model.name}!")
UnknownModel(name) == Exc("ValueError", <<"Unknown model ", name, "!">>)

\* A class object: the package it was read from and its name.
ClassOf(module, name) == [module |-> module, name |-> name]
NoClass == ClassOf(<<>>, <<>>)

\* A model object: its class, the configuration it was built from, the
\* parameters its constructor left and the parameters it holds now.
Instance(cls, cfg) ==
    [cls |-> cls, cfg |-> cfg, constructed |-> InitialParams, params |-> InitialParams]

\* a buggy instantiation that hands out the object an earlier call built
\* from the same class
InstantiateCached(cls, cfg, h) ==
    IF \E i \in 1..Len(h) : h[i].cls = cls
    THEN [heap |-> h, id |-> CHOOSE i \in 1..Len(h) : h[i].cls = cls]
    ELSE [heap |-> Append(h, Instance(cls, cfg)), id |-> Len(h) + 1]

\* cls(config): a call of the class creates a new object
InstantiateClass(cls, cfg, h) ==
    [heap |-> Append(h, Instance(cls, cfg)), id |-> Len(h) + 1]

\* Module.load_state_dict(sd, strict): tensors of matching name and shape
\* are copied; a shape mismatch is always an error, a missing or unexpected
\* name only when strict.  The copies are made before the error is raised.
LoadStateDict(params, sd, strict) ==
    LET both       == DOMAIN params \cap DOMAIN sd
        mismatched == {k \in both : sd[k].shape # params[k].shape}
        missing    == DOMAIN params \ DOMAIN sd
        unexpected == DOMAIN sd \ DOMAIN params
    IN  [params |-> [k \in DOMAIN params |->
                        IF k \in both \ mismatched THEN sd[k] ELSE params[k]],
         failed |-> \/ mismatched # {}
                    \/ strict /\ (missing # {} \/ unexpected # {})]

\* a buggy call that leaves strict at its default, True
LoadWeightsStrict(params, sd) == LoadStateDict(params, sd, TRUE)

\* model.load_state_dict(..., strict=False)
LoadWeights(params, sd) == LoadStateDict(params, sd, FALSE)

\* os.path.join(config.project.path, config.init_weights)
WeightsPath(cfg) == PathJoin(cfg.project_path, cfg.init_weights.path)

----------------------------------------------------------------------------
(* get_model, step by step.                                                *)

\* local variables of a call
FrameOf(module, cls, model, file, sd) ==
    [module |-> module, cls |-> cls, model |-> model, file |-> file, sd |-> sd]
NoFrame == FrameOf(<<>>, NoClass, 0, Missing, NoStateDict)

\* the outcome a caller sees: a returned object or a raised exception
Returned(id, h, steps) ==
    [kind |-> "return", exc |-> NoExc, model |-> id, cls |-> h[id].cls,
     params |-> h[id].params, trace |-> steps]
Raised(exc, steps) ==
    [kind |-> "raise", exc |-> exc, model |-> 0, cls |-> NoClass,
     params |-> NoStateDict, trace |-> steps]

\* an exception leaves get_model: nothing catches it, the call is over
Raise(exc, step) ==
    /\ results' = Append(results, Raised(exc, Append(trace, step)))
    /\ pc' = "idle"
    /\ frame' = NoFrame
    /\ trace' = <<>>

\* the call moves on to the next statement
Goto(next, step) ==
    /\ pc' = next
    /\ trace' = Append(trace, step)
    /\ UNCHANGED results

\* a buggy entry that imports the package before it looks at the list
CallImportFirst ==
    /\ pc = "idle"
    /\ Len(results) < MaxCalls
    /\ IF ModulePath(config.name) \in DOMAIN modules
       THEN /\ Goto("getattr", "import")
            /\ frame' = [NoFrame EXCEPT !.module = ModulePath(config.name)]
       ELSE Raise(Exc("ModuleNotFoundError", ModulePath(config.name)), "import")
    /\ UNCHANGED <<config, modules, fs, ctorOk, heap, caseVars>>

\* get_model is entered: the name is looked up in model_list
Call ==
    /\ pc = "idle"
    /\ Len(results) < MaxCalls
    /\ IF InModelList(config.name)
       THEN /\ Goto("import", "check")
            /\ frame' = NoFrame
       ELSE Raise(UnknownModel(config.name), "check")
    /\ UNCHANGED <<config, modules, fs, ctorOk, heap, caseVars>>

\* module = import_module(f"anomalib.models.{config.model.name}")
ImportModule ==
    /\ pc = "import"
    /\ IF ModulePath(config.name) \in DOMAIN modules
       THEN /\ Goto("getattr", "import")
            /\ frame' = [frame EXCEPT !.module = ModulePath(config.name)]
       ELSE Raise(Exc("ModuleNotFoundError", ModulePath(config.name)), "import")
    /\ UNCHANGED <<config, modules, fs, ctorOk, heap, caseVars>>

\* a buggy lookup that falls back to the plain class of the package
GetAttrFallback ==
    /\ pc = "getattr"
    /\ IF ClassName(config.name) \in modules[frame.module]
       THEN /\ Goto("instantiate", "getattr")
            /\ frame' = [frame EXCEPT !.cls = ClassOf(frame.module, ClassName(config.name))]
       ELSE IF _snake_to_pascal_case(config.name) \in modules[frame.module]
       THEN /\ Goto("instantiate", "getattr")
            /\ frame' = [frame EXCEPT
                            !.cls = ClassOf(frame.module, _snake_to_pascal_case(config.name))]
       ELSE Raise(Exc("AttributeError", ClassName(config.name)), "getattr")
    /\ UNCHANGED <<config, modules, fs, ctorOk, heap, caseVars>>

\* getattr(module, f"{_snake_to_pascal_case(config.model.name)}Lightning")
GetAttr ==
    /\ pc = "getattr"
    /\ IF ClassName(config.name) \in modules[frame.module]
       THEN /\ Goto("instantiate", "getattr")
            /\ frame' = [frame EXCEPT !.cls = ClassOf(frame.module, ClassName(config.name))]
       ELSE Raise(Exc("AttributeError", ClassName(config.name)), "getattr")
    /\ UNCHANGED <<config, modules, fs, ctorOk, heap, caseVars>>

\* model = <class>(config)
Instantiate ==
    /\ pc = "instantiate"
    /\ IF ctorOk
       THEN LET made == InstantiateClass(frame.cls, config, heap)
            IN  /\ heap' = made.heap
                /\ frame' = [frame EXCEPT !.model = made.id]
                /\ Goto("init_weights", "instantiate")
       ELSE /\ Raise(Exc("ConstructorError", frame.cls.name), "instantiate")
            /\ UNCHANGED heap
    /\ UNCHANGED <<config, modules, fs, ctorOk, caseVars>>

\* a buggy test that loads whenever the key is present
TestInitWeightsKeyOnly ==
    /\ pc = "init_weights"
    /\ IF HasInitWeights(config)
       THEN Goto("load", "init_weights")
       ELSE Goto("return", "init_weights")
    /\ UNCHANGED <<config, modules, fs, ctorOk, frame, heap, caseVars>>

\* if "init_weights" in config.keys() and config.init_weights:
TestInitWeights ==
    /\ pc = "init_weights"
    /\ IF HasInitWeights(config) /\ Truthy(config.init_weights)
       THEN Goto("load", "init_weights")
       ELSE Goto("return", "init_weights")
    /\ UNCHANGED <<config, modules, fs, ctorOk, frame, heap, caseVars>>

\* a buggy load that skips the weights when the file is not there
LoadFileIfPresent ==
    /\ pc = "load"
    /\ IF config.init_weights.kind # "str"
       THEN Raise(Exc("TypeError", <<"join">>), "join")
       ELSE LET file == FileAt(fs, WeightsPath(config))
            IN  CASE file.kind = "missing" ->
                       /\ Goto("return", "read")
                       /\ UNCHANGED frame
                  [] file.kind = "corrupt" ->
                       Raise(Exc("UnpicklingError", WeightsPath(config)), "read")
                  [] OTHER ->
                       /\ Goto("state_dict", "read")
                       /\ frame' = [frame EXCEPT !.file = file]
    /\ UNCHANGED <<config, modules, fs, ctorOk, heap, caseVars>>

\* load(os.path.join(config.project.path, config.init_weights))
LoadFile ==
    /\ pc = "load"
    /\ IF config.init_weights.kind # "str"
       THEN Raise(Exc("TypeError", <<"join">>), "join")
       ELSE LET file == FileAt(fs, WeightsPath(config))
            IN  CASE file.kind = "missing" ->
                       Raise(Exc("FileNotFoundError", WeightsPath(config)), "read")
                  [] file.kind = "corrupt" ->
                       Raise(Exc("UnpicklingError", WeightsPath(config)), "read")
                  [] OTHER ->
                       /\ Goto("state_dict", "read")
                       /\ frame' = [frame EXCEPT !.file = file]
    /\ UNCHANGED <<config, modules, fs, ctorOk, heap, caseVars>>

\* (...)["state_dict"]
GetStateDict ==
    /\ pc = "state_dict"
    /\ IF frame.file.kind = "checkpoint"
       THEN /\ Goto("load_state_dict", "state_dict")
            /\ frame' = [frame EXCEPT !.sd = frame.file.state_dict]
       ELSE Raise(Exc("KeyError", <<"state_dict">>), "state_dict")
    /\ UNCHANGED <<config, modules, fs, ctorOk, heap, caseVars>>

\* model.load_state_dict(<state dict>, strict=False)
LoadStateDictStep ==
    /\ pc = "load_state_dict"
    /\ LET got == LoadWeights(heap[frame.model].params, frame.sd)
       IN  /\ heap' = [heap EXCEPT ![frame.model].params = got.params]
           /\ IF got.failed
              THEN Raise(Exc("RuntimeError", <<"load_state_dict">>), "load_state_dict")
              ELSE /\ Goto("return", "load_state_dict")
                   /\ UNCHANGED frame
    /\ UNCHANGED <<config, modules, fs, ctorOk, caseVars>>

\* return model
Return ==
    /\ pc = "return"
    /\ results' = Append(results, Returned(frame.model, heap, Append(trace, "return")))
    /\ pc' = "idle"
    /\ frame' = NoFrame
    /\ trace' = <<>>
    /\ UNCHANGED <<config, modules, fs, ctorOk, heap, caseVars>>

\* Before the first call: a configuration, a package layout, a filesystem.
Init ==
    /\ config \in Configs
    /\ modules \in Layouts
    /\ fs \in Filesystems
    /\ ctorOk \in BOOLEAN
    /\ pc = "idle"
    /\ frame = NoFrame
    /\ trace = <<>>
    /\ heap = <<>>
    /\ results = <<>>
    /\ caseIn = <<>>
    /\ caseOut = <<>>
    /\ caseOut2 = <<>>
    /\ caseStage = 0

Next ==
    \/ Call
    \/ ImportModule
    \/ GetAttr
    \/ Instantiate
    \/ TestInitWeights
    \/ LoadFile
    \/ GetStateDict
    \/ LoadStateDictStep
    \/ Return

Spec == Init /\ [][Next]_vars

----------------------------------------------------------------------------
(* _snake_to_pascal_case on its own: any short string over a small         *)
(* alphabet, the ten known names and an unknown one.                       *)

CaseAlphabet == {"a", "B", "_", "1"}
CaseInputs == UNION {[1..n -> CaseAlphabet] : n \in 0..MaxLen}
              \cup Registry \cup OtherNames

InitCase ==
    /\ caseIn \in CaseInputs
    /\ caseOut = <<>>
    /\ caseOut2 = <<>>
    /\ caseStage = 0
    /\ config = CHOOSE c \in Configs : c.name = padim /\ c.init_weights = IwAbsent
    /\ modules = [q \in {} |-> {}]
    /\ fs = CHOOSE f \in Filesystems : \A q \in DOMAIN f : f[q] = Missing
    /\ ctorOk = TRUE
    /\ pc = "idle"
    /\ frame = NoFrame
    /\ trace = <<>>
    /\ heap = <<>>
    /\ results = <<>>

\* _snake_to_pascal_case(caseIn)
Convert ==
    /\ caseStage = 0
    /\ caseOut' = _snake_to_pascal_case(caseIn)
    /\ caseStage' = 1
    /\ UNCHANGED <<caseIn, caseOut2, modelVars>>

\* _snake_to_pascal_case applied to its own result
ConvertAgain ==
    /\ caseStage = 1
    /\ caseOut2' = _snake_to_pascal_case(caseOut)
    /\ caseStage' = 2
    /\ UNCHANGED <<caseIn, caseOut, modelVars>>

NextCase ==
    \/ Convert
    \/ ConvertAgain

SpecCase == InitCase /\ [][NextCase]_vars

----------------------------------------------------------------------------
(* Properties of _snake_to_pascal_case.                                    *)

\* positions of the characters of s that are not the separator
Kept(s) == {j \in 1..Len(s) : s[j] # "_"}
\* the position in s of its i-th kept character
KeptAt(s, i) == CHOOSE j \in Kept(s) : Cardinality({k \in Kept(s) : k <= j}) = i
\* whether position j of s starts a segment
StartsSegment(s, j) == j = 1 \/ s[j - 1] = "_"

\* C7: the conversion of any identifier is its underscore-separated segments
\* concatenated in order with no separator, the first character of each
\* segment upper-cased and every other character lower-cased; the result
\* holds no underscore, and the ten known names give the ten class names
\* ("reverse_distillation" gives "ReverseDistillation", "stfpm" "Stfpm").
C7_PascalCase ==
    caseStage >= 1 =>
        /\ Len(caseOut) = Cardinality(Kept(caseIn))
        /\ \A i \in 1..Len(caseOut) :
              LET j == KeptAt(caseIn, i)
              IN  caseOut[i] = IF StartsSegment(caseIn, j)
                               THEN ToUpper(caseIn[j])
                               ELSE ToLower(caseIn[j])
        /\ \A i \in 1..Len(caseOut) : caseOut[i] # "_"
        /\ \A i \in 1..Len(model_list) : caseIn = model_list[i] => caseOut = all_names[i]

\* a two-segment name has been converted
C7_Witness ==
    /\ caseStage = 1
    /\ caseIn = reverse_distillation
    /\ caseOut = all_names[9]

\* C8 as stated: for every known name, converting the result of the
\* conversion again gives the same string.
C8_Idempotent ==
    (caseStage = 2 /\ caseIn \in Registry) => caseOut2 = caseOut

\* C8 as amended: converting again gives the same string for every known
\* name without an underscore, that is for all but reverse_distillation,
\* whose result "ReverseDistillation" converts again to "Reversedistillation".
C8_IdempotentSingleSegment ==
    caseStage = 2 =>
        /\ (caseIn \in Registry /\ Kept(caseIn) = 1..Len(caseIn)) => caseOut2 = caseOut
        /\ caseIn = reverse_distillation =>
              /\ caseOut = all_names[9]
              /\ caseOut2 = Reversedistillation
              /\ caseOut2 # caseOut

\* a one-segment known name has been converted twice
C8_Witness ==
    /\ caseStage = 2
    /\ caseIn = model_list[10]
    /\ caseOut = all_names[10]
    /\ caseOut2 = all_names[10]

----------------------------------------------------------------------------
(* Properties of get_model.  They are stated over the outcomes of the      *)
(* finished calls and the steps of the running one, and name files,        *)
(* packages and classes by what the configuration says, not by what the    *)
(* call computed.                                                          *)

\* the traces of all calls, the running one included
Traces == {results[i].trace : i \in 1..Len(results)} \cup {trace}
Has(t, step) == \E i \in 1..Len(t) : t[i] = step

\* the position of the configured name in the list of known names, or 0
Known == IF \E i \in 1..Len(model_list) : model_list[i] = config.name
         THEN CHOOSE i \in 1..Len(model_list) : model_list[i] = config.name
         ELSE 0
\* the package and the class the naming convention gives the configured name
ExpectedModule == <<"anomalib", "models", config.name>>
ExpectedClass == all_names[Known] \o Lightning
PackageFound == ExpectedModule \in DOMAIN modules
ClassExported == PackageFound /\ ExpectedClass \in modules[ExpectedModule]

\* weight loading is requested: the key is there and its value is true
Requested == config.init_weights.kind # "absent" /\ Truthy(config.init_weights)
\* the file the configured paths name
ArtifactPath ==
    IF config.init_weights.path.abs
    THEN config.init_weights.path
    ELSE PathOf(config.project_path.abs,
                config.project_path.segs \o config.init_weights.path.segs)
Artifact == IF ArtifactPath \in DOMAIN fs THEN fs[ArtifactPath] ELSE Missing
ArtifactUsable ==
    /\ config.init_weights.kind = "str"
    /\ Artifact.kind = "checkpoint"
    /\ \A k \in DOMAIN Artifact.state_dict \cap ModelKeys :
          Artifact.state_dict[k].shape = InitialParams[k].shape

\* exception types by the step that raises them
ResolutionErrors == {"ModuleNotFoundError", "AttributeError"}
WeightLoadErrors == {"TypeError", "FileNotFoundError", "UnpicklingError",
                     "KeyError", "RuntimeError"}

\* C1: for a configured name that is not one of the ten known names, every
\* call fails with ValueError("Unknown model <name>!") and with nothing
\* else, and has by then imported no package, created no object and read
\* no file.
C1_UnknownModel ==
    config.name \notin Registry =>
        /\ pc = "idle"
        /\ heap = <<>>
        /\ \A i \in 1..Len(results) :
              /\ results[i].kind = "raise"
              /\ results[i].exc.type = "ValueError"
              /\ results[i].exc.arg = <<"Unknown model ", config.name, "!">>
              /\ results[i].trace = <<"check">>
              /\ results[i].model = 0

\* a call with an unknown name has failed
C1_Witness ==
    /\ config.name = not_a_model
    /\ Len(results) >= 1
    /\ results[1].exc = UnknownModel(not_a_model)

\* C2: for every known name every call succeeds and returns an object
\* whose class is named PascalCase(name) + "Lightning" and comes from the
\* package of the lowercase name.  Stated for the case most favourable to
\* it: the packages are where the imports at the top of the file find
\* them, the constructor returns and no weights are requested.
C2_KnownModelSucceeds ==
    (config.name \in Registry /\ modules = ImportedModules /\ ctorOk /\ ~Requested) =>
        \A i \in 1..Len(results) :
            /\ results[i].kind = "return"
            /\ results[i].cls.name = ExpectedClass

\* C3: when the configuration has no init_weights key, or the value is
\* false (False or the empty string), no call reads a file: torch's load is
\* called only when weight loading is requested.
C3_NoReadUnlessRequested ==
    ~Requested =>
        /\ \A t \in Traces : ~Has(t, "read") /\ ~Has(t, "join")
        /\ pc \notin {"load", "state_dict", "load_state_dict"}

\* a call has returned a model with init_weights set to False
C3_Witness ==
    /\ config.init_weights = IwOf("bool", FALSE, EmptyPath)
    /\ Len(results) >= 1
    /\ results[1].kind = "return"
    /\ ~Has(results[1].trace, "read")

\* C4: when weight loading is requested and the file at the joined path
\* does not exist or is malformed (not a pickle, or without "state_dict"),
\* no call returns an object; a call that got as far as building the model
\* fails with the error of the loading step.
C4_MissingArtifactFails ==
    (Requested /\ ~ArtifactUsable) =>
        \A i \in 1..Len(results) :
            /\ results[i].kind = "raise"
            /\ results[i].model = 0
            /\ Has(results[i].trace, "init_weights") =>
                  results[i].exc.type \in WeightLoadErrors
            /\ (config.init_weights.kind = "str" /\ Artifact.kind = "missing"
                    /\ Has(results[i].trace, "init_weights")) =>
                  results[i].exc.type = "FileNotFoundError"
            /\ (config.init_weights.kind = "str" /\ Artifact.kind = "no_state_dict"
                    /\ Has(results[i].trace, "init_weights")) =>
                  results[i].exc.type = "KeyError"

\* a call has built the model and failed on the missing file
C4_Witness ==
    /\ Requested
    /\ Artifact.kind = "missing"
    /\ Len(results) >= 1
    /\ Has(results[1].trace, "instantiate")
    /\ results[1].kind = "raise"
    /\ results[1].exc.type = "FileNotFoundError"
    /\ Len(heap) >= 1

\* C5: when weight loading is requested and the file exists with a
\* "state_dict", a returned object holds the file's tensor for every
\* parameter name the file has, and the tensor its constructor left for
\* every parameter name the file lacks; names only the file has, and names
\* only the model has, make no call fail.
C5_NonStrictLoad ==
    (Requested /\ config.init_weights.kind = "str" /\ Artifact.kind = "checkpoint") =>
        \A i \in 1..Len(results) :
            LET r  == results[i]
                sd == Artifact.state_dict
            IN  /\ r.kind = "return" =>
                      /\ DOMAIN r.params = ModelKeys
                      /\ \A k \in ModelKeys \cap DOMAIN sd : r.params[k] = sd[k]
                      /\ \A k \in ModelKeys \ DOMAIN sd :
                            r.params[k] = heap[r.model].constructed[k]
                /\ (Has(r.trace, "load_state_dict") /\ ArtifactUsable) => r.kind = "return"

\* a model has been returned after a load from a file that has a name the
\* model lacks and lacks a name the model has
C5_Witness ==
    /\ Requested
    /\ Artifact = FileOf("checkpoint", sdExtra)
    /\ Len(results) >= 1
    /\ results[1].kind = "return"
    /\ results[1].params["w"] = sdExtra["w"]
    /\ results[1].params["b"] = InitialParams["b"]

\* C6: for a known name whose package cannot be found, or whose package
\* does not export <PascalCaseName>Lightning, every call fails with
\* ModuleNotFoundError, respectively AttributeError, right at that step,
\* after one import and with no object created or returned.
C6_ConventionMismatch ==
    (config.name \in Registry /\ ~ClassExported) =>
        /\ heap = <<>>
        /\ \A i \in 1..Len(results) :
              /\ results[i].kind = "raise"
              /\ results[i].model = 0
              /\ results[i].exc.type \in ResolutionErrors
              /\ ~PackageFound =>
                    /\ results[i].exc.type = "ModuleNotFoundError"
                    /\ results[i].trace = <<"check", "import">>
              /\ PackageFound =>
                    /\ results[i].exc.type = "AttributeError"
                    /\ results[i].trace = <<"check", "import", "getattr">>

\* a call has failed on a package that lacks the class
C6_Witness ==
    /\ config.name = reverse_distillation
    /\ PackageFound
    /\ ~ClassExported
    /\ Len(results) >= 1
    /\ results[1].exc.type = "AttributeError"

Rank(step) ==
    CASE step = "check" -> 1
      [] step = "import" -> 2
      [] step = "getattr" -> 3
      [] step = "instantiate" -> 4
      [] step = "init_weights" -> 5
      [] step = "join" -> 6
      [] step = "read" -> 6
      [] step = "state_dict" -> 7
      [] step = "load_state_dict" -> 8
      [] step = "return" -> 9

\* calls that went past a successful instantiation: the finished ones that
\* reached the next statement, and the running one once it has instantiated
PastInstantiation ==
    Cardinality({i \in 1..Len(results) : Has(results[i].trace, "init_weights")})
        + (IF Has(trace, "instantiate") THEN 1 ELSE 0)

\* C10: in every call the steps come in the order of the text, each at most
\* once: the membership check first, then the import, then the lookup of
\* the class, then the instantiation; the file is read only after the
\* instantiation has succeeded, and at most once; the model is returned
\* only after every requested step; a step that fails is the last step of
\* its call, and an object exists only for a call whose instantiation
\* succeeded.
C10_StepOrder ==
    /\ \A t \in Traces :
          /\ t # <<>> => t[1] = "check"
          /\ \A i \in 1..(Len(t) - 1) : Rank(t[i]) < Rank(t[i + 1])
          /\ Has(t, "getattr") => Has(t, "import")
          /\ Has(t, "instantiate") => Has(t, "getattr")
          /\ Has(t, "init_weights") => Has(t, "instantiate")
          /\ (Has(t, "read") \/ Has(t, "join")) => Has(t, "init_weights")
          /\ Has(t, "state_dict") => Has(t, "read")
          /\ Has(t, "load_state_dict") => Has(t, "state_dict")
          /\ Has(t, "return") =>
                /\ Has(t, "init_weights")
                /\ Requested => Has(t, "load_state_dict")
    /\ \A i \in 1..Len(results) :
          LET r == results[i]
          IN  /\ r.kind = "return" <=> r.trace[Len(r.trace)] = "return"
              /\ r.kind = "raise" => r.model = 0
    /\ Len(heap) = PastInstantiation
    /\ (pc = "idle") <=> (trace = <<>>)

\* a call has gone through every step of get_model
C10_Witness ==
    /\ Len(results) >= 1
    /\ results[1].trace = <<"check", "import", "getattr", "instantiate", "init_weights",
                            "read", "state_dict", "load_state_dict", "return">>

====
